---- MODULE Spec2Model ----
(***************************************************************************)
(* The event extractor of at_stop_corona_dump.py: the walk over the sorted *)
(* archive files that derives Added / Revoked / AutoRemoved events from    *)
(* the intersections of adjacent key exports.                              *)
(*                                                                         *)
(* Time is counted in minutes: archive names have minute resolution        *)
(* ("%Y-%m-%d_%H-%M.zip") and a key starts on a multiple of 600 seconds,   *)
(* so every datetime and timedelta of the script is a whole number of      *)
(* minutes.                                                                *)
(*                                                                         *)
(* Line 105 builds archives from at_14d_files, a name the script never     *)
(* binds (line 103 binds at_7d_files): the walk is modelled over a sorted  *)
(* glob of archive files as lines 103 and 104 build it, and last_archive   *)
(* as an export of its own.                                                *)
(*                                                                         *)
(* The second part is the save queue of download_data.py: the jobs that    *)
(* save_to_path queued, the four worker threads that run them against the  *)
(* file system, and the shutdown of the pool by the main thread.           *)
(***************************************************************************)
EXTENDS Integers, Sequences, FiniteSets, TLC

\* ------------------------------------------------------------------ bounds
\* At most this many archive files are on disk for the walk.
MaxArchives == 4
\* The same for the long walks over exports of a single key (SpecLong).
MaxLongArchives == 6
\* The same for the walks over two keys that sort alike (SpecTie).
MaxTieArchives == 2
\* At most this many jobs are in the save queue.
MaxJobs == 2

\* --------------------------------------------------------- program constants
\* TEK.dt: interval * 600 seconds, i.e. 10 minutes per interval tick.
TickMinutes == 10
\* Archive.dt: "+ timedelta(hours=2)".
TZShiftHours == 2
\* "age <= timedelta(days=8)".
GraceDays == 8
\* sort key of inter: 1000 * key.level + key.interval.
LevelWeight == 1000
\* "if key.level == 5 and not revoked".
HighRiskLevel == 5
\* download_data.py: NUM_WORKERS = 4
NUM_WORKERS == 4

TZShift == TZShiftHours * 60
Grace == GraceDays * 24 * 60

\* ------------------------------------------------------------------ inputs
\* The keys an export may hold: K1 and K2 share their data and differ in the
\* level; K3 has other data and starts one tick later.
K1 == [data |-> 1, interval |-> 0, level |-> 5, period |-> 144]
K2 == [data |-> 1, interval |-> 0, level |-> 2, period |-> 144]
K3 == [data |-> 2, interval |-> 1, level |-> 5, period |-> 144]
TEK == {K1, K2, K3}
\* A key that differs from K1 in its data alone.
K4 == [data |-> 2, interval |-> 0, level |-> 5, period |-> 144]

\* Archive files <dir>/<name>.zip: the directory is a date (a day number), the
\* name a capture time in minutes.  At the names AtGrace, AtGrace + 1 a key
\* that starts at 0 is exactly 8 days old and one minute older.  Directory 1
\* then directory 2 gives up to five ascending capture times; the file 2/0
\* repeats a capture time and follows later ones in path order.
AtGrace == Grace - TZShift
Paths == [dir : {1}, name : {0, 24 * 60, AtGrace, AtGrace + 1}]
         \cup [dir : {2}, name : {0, AtGrace + 2}]

\* For the long walks: one file a day at midnight in one directory, the
\* exports holding at most the key K1.
LongPaths == [dir : {1}, name : {d * 24 * 60 : d \in 0..MaxLongArchives}]

\* Optional[...]: None is the empty tuple, a value v is <<v>>.
None == <<>>
Some(v) == <<v>>

VARIABLES
    universe,      \* the keys the exports on disk may hold (never changes)
    archives,      \* the archive paths, in walk order
    idx,           \* position of the for loop in archives
    pc,            \* "loop", "extracted", "reported", or the exception that
                   \* ended the run
    all_keys,      \* all_keys
    revoked_keys,  \* revoked_keys
    prev_keys,     \* prev_keys (Optional)
    prev_dt,       \* prev_dt (Optional)
    events,        \* events, in the order they were appended
    added_when,    \* added_when
    dts,           \* dts
    now_keys,      \* now_keys: the keys loaded last (Optional)
    sorted_events, \* events after events.sort(...); events keeps the order of
                   \* emission, which the in-place sort of the script forgets
    tot_days_count,\* tot_days_count
    headline,      \* max(tot_days_count.values()) as printed last (Optional)
    loaded,        \* history: every key that was in some loaded export
    paired         \* history: keys seen in two adjacent loaded exports

walk_vars == <<universe, archives, idx, pc, all_keys, revoked_keys, prev_keys,
               prev_dt, events, added_when, dts, now_keys, sorted_events,
               tot_days_count, headline, loaded, paired>>

VARIABLES
    fs,            \* the files on disk: path -> Optional content
    jobs,          \* the closures func that save_to_path queued, in order:
                   \* [path, check_path (Optional)]
    to_save,       \* to_save: [queue, unfinished] (0 in the queue is None)
    workers,       \* per worker thread: [pc, item, resp]
    main,          \* the main thread: [pc, put]
    dlog           \* history: writes per path, overwrites, jobs started and
                   \* finished, exceptions caught, sentinels taken

dl_vars == <<fs, jobs, to_save, workers, main, dlog>>

vars == <<walk_vars, dl_vars>>

\* ------------------------------------------------------------- TEK, Archive
\* TEK.dt
TEK_dt(key) == key.interval * TickMinutes

\* Archive.dt: the capture time is read from the file name alone.
Archive_dt(path) == path.name + TZShift

\* sorted(glob('*/*.zip')): paths compare by directory, then by file name.
PathLess(p, q) == \/ p.dir < q.dir
                  \/ p.dir = q.dir /\ p.name < q.name

RECURSIVE SortedPaths(_)
SortedPaths(S) ==
    IF S = {} THEN <<>>
    ELSE LET m == CHOOSE x \in S : \A y \in S : x = y \/ PathLess(x, y)
         IN  <<m>> \o SortedPaths(S \ {m})

\* ------------------------------------------------------------------ events
AddedEvent(key, dt, changed) ==
    [type |-> "AddedEvent", key |-> key, dt |-> dt, changed |-> changed]
RevokedEvent(key, dt, added_dt) ==
    [type |-> "RevokedEvent", key |-> key, dt |-> dt, added_dt |-> added_dt]
AutoRemovedEvent(key, dt, added_dt) ==
    [type |-> "AutoRemovedEvent", key |-> key, dt |-> dt, added_dt |-> added_dt]

\* ------------------------------------------------------------ loop orders
\* All orders in which a for loop may visit the set S.
RECURSIVE Orders(_)
Orders(S) ==
    IF S = {} THEN {<<>>}
    ELSE UNION {{<<x>> \o r : r \in Orders(S \ {x})} : x \in S}

SortKey(key) == LevelWeight * key.level + key.interval

\* InterLists with the union in place of the intersection.
InterListsUnion(keys, before_keys) ==
    {s \in Orders(keys \cup before_keys) :
        \A i, j \in 1..Len(s) : i < j => SortKey(s[i]) <= SortKey(s[j])}

\* inter = list(set(now_keys) & set(prev_keys)); inter.sort(key=...): the set
\* is listed in hash order and sorted stably, so keys with equal sort keys
\* come in any order.
InterLists(keys, before_keys) ==
    {s \in Orders(keys \cap before_keys) :
        \A i, j \in 1..Len(s) : i < j => SortKey(s[i]) <= SortKey(s[j])}

\* ------------------------------------------------------------ the add loop
\* AddStep without the line "added_when[key] = prev_dt".
AddStepUnrecorded(key, st, at) ==
    IF key \notin st.all_keys
    THEN [all_keys   |-> st.all_keys \cup {key},
          added_when |-> st.added_when,
          events     |-> Append(st.events,
                            AddedEvent(key, at,
                                \E o \in st.all_keys : key.data = o.data))]
    ELSE st

\* AddStep without the test "if key not in all_keys".
AddStepUnguarded(key, st, at) ==
    [all_keys   |-> st.all_keys \cup {key},
     added_when |-> [k \in (DOMAIN st.added_when) \cup {key} |->
                        IF k = key THEN at ELSE st.added_when[k]],
     events     |-> Append(st.events,
                       AddedEvent(key, at,
                           \E o \in st.all_keys : key.data = o.data))]

\* One iteration of "for key in inter" (ADD detection) on the record
\* st = [all_keys, added_when, events].
AddStep(key, st, at) ==
    IF key \notin st.all_keys
    THEN [all_keys   |-> st.all_keys \cup {key},
          added_when |-> [k \in (DOMAIN st.added_when) \cup {key} |->
                             IF k = key THEN at ELSE st.added_when[k]],
          events     |-> Append(st.events,
                            AddedEvent(key, at,
                                \E o \in st.all_keys : key.data = o.data))]
    ELSE st

RECURSIVE AddLoop(_, _, _)
AddLoop(inter, st, at) ==
    IF inter = <<>> THEN st
    ELSE AddLoop(Tail(inter), AddStep(Head(inter), st, at), at)

\* ------------------------------------------------------ the departure loop
\* Departs with the test inverted ("if key in inter").
DepartsInverted(key, inter) == \E i \in 1..Len(inter) : inter[i] = key

\* The test of the departure loop: "if key not in inter".
Departs(key, inter) == \A i \in 1..Len(inter) : inter[i] # key

\* IsRevoke with "<" in place of "<=".
IsRevokeStrict(key, dt) == dt - TEK_dt(key) < Grace

\* "if age <= timedelta(days=8)" with age = dt - key.dt
IsRevoke(key, dt) == dt - TEK_dt(key) <= Grace

\* DepartStep with "all_keys.remove(key)" indented into the if branch.
DepartStepRemoveInIf(key, inter, st, dt, when) ==
    IF st.failed \/ ~Departs(key, inter) THEN st
    ELSE IF key \notin DOMAIN when THEN [st EXCEPT !.failed = TRUE]
    ELSE IF IsRevoke(key, dt)
    THEN [st EXCEPT !.events = Append(@, RevokedEvent(key, dt, when[key])),
                    !.revoked_keys = @ \cup {key},
                    !.all_keys = @ \ {key}]
    ELSE [st EXCEPT !.events = Append(@, AutoRemovedEvent(key, dt, when[key]))]

\* One iteration of "for key in list(all_keys)" on the record
\* st = [all_keys, revoked_keys, events, failed]; added_when[key] raises
\* KeyError for a key without an entry.
DepartStep(key, inter, st, dt, when) ==
    IF st.failed \/ ~Departs(key, inter) THEN st
    ELSE IF key \notin DOMAIN when THEN [st EXCEPT !.failed = TRUE]
    ELSE IF IsRevoke(key, dt)
    THEN [st EXCEPT !.events = Append(@, RevokedEvent(key, dt, when[key])),
                    !.revoked_keys = @ \cup {key},
                    !.all_keys = @ \ {key}]
    ELSE [st EXCEPT !.events = Append(@, AutoRemovedEvent(key, dt, when[key])),
                    !.all_keys = @ \ {key}]

RECURSIVE DepartLoop(_, _, _, _, _)
DepartLoop(order, inter, st, dt, when) ==
    IF order = <<>> THEN st
    ELSE DepartLoop(Tail(order), inter,
                    DepartStep(Head(order), inter, st, dt, when), dt, when)

\* The loop of the terminal pass: the ADD detection once more, and nothing
\* else.
SetOf(list) == {list[i] : i \in 1..Len(list)}

\* TerminalLoop with the departure's "all_keys.remove(key)" copied along.
TerminalLoopRemoving(inter, st, at) ==
    LET a == AddLoop(inter, st, at)
    IN  [a EXCEPT !.all_keys = @ \cap SetOf(inter)]

TerminalLoop(inter, st, at) == AddLoop(inter, st, at)

\* ---------------------------------------------------------- events.sort
\* The class names that str(type(e)) puts between "<class '__main__." and
\* "'>", as character codes.
TypeName(type) ==
    CASE type = "AddedEvent" ->
            <<65, 100, 100, 101, 100, 69, 118, 101, 110, 116>>
      [] type = "AutoRemovedEvent" ->
            <<65, 117, 116, 111, 82, 101, 109, 111, 118, 101, 100,
              69, 118, 101, 110, 116>>
      [] type = "RevokedEvent" ->
            <<82, 101, 118, 111, 107, 101, 100, 69, 118, 101, 110, 116>>

\* str < str: the first differing character decides, a proper prefix is less.
RECURSIVE StrLess(_, _)
StrLess(a, b) ==
    IF b = <<>> THEN FALSE
    ELSE IF a = <<>> THEN TRUE
    ELSE IF Head(a) # Head(b) THEN Head(a) < Head(b)
    ELSE StrLess(Tail(a), Tail(b))

\* The sort key with the event class first.
EventKeyTypeFirst(e) ==
    <<0, TypeName(e.type), e.dt, TEK_dt(e.key)>>

\* key=lambda e: (e.dt, str(type(e)), e.key.level, e.key.dt)
EventKey(e) == <<e.dt, TypeName(e.type), e.key.level, TEK_dt(e.key)>>

\* tuple < tuple on two such keys.
KeyLess(a, b) ==
    \/ a[1] < b[1]
    \/ a[1] = b[1] /\ StrLess(a[2], b[2])
    \/ a[1] = b[1] /\ a[2] = b[2] /\ a[3] < b[3]
    \/ a[1] = b[1] /\ a[2] = b[2] /\ a[3] = b[3] /\ a[4] < b[4]

\* list.sort is stable: an event goes behind every event whose key is not
\* greater than its own.
RECURSIVE InsertEvent(_, _)
InsertEvent(list, e) ==
    IF list = <<>> THEN <<e>>
    ELSE IF KeyLess(EventKey(e), EventKey(Head(list))) THEN <<e>> \o list
    ELSE <<Head(list)>> \o InsertEvent(Tail(list), e)

RECURSIVE SortInto(_, _)
SortInto(done, rest) ==
    IF rest = <<>> THEN done
    ELSE SortInto(InsertEvent(done, Head(rest)), Tail(rest))

SortEvents(list) == SortInto(<<>>, list)

\* -------------------------------------------------------------- the tally
\* tot_days_count[key.interval] += 1 on a defaultdict(int)
Bump(tot, d) ==
    [x \in (DOMAIN tot) \cup {d} |->
        IF x = d THEN (IF d \in DOMAIN tot THEN tot[d] ELSE 0) + 1 ELSE tot[x]]

\* The body of "for event in gevents", as far as it counts.
TallyEvent(e, tot, revoked) ==
    IF e.type = "AddedEvent" /\ e.key.level = HighRiskLevel
                             /\ e.key \notin revoked
    THEN Bump(tot, e.key.interval)
    ELSE tot

\* gevents = [e for e in events if e.dt == dt], and the loop over it.
RECURSIVE TallyGroup(_, _, _, _)
TallyGroup(list, dt, tot, revoked) ==
    IF list = <<>> THEN tot
    ELSE TallyGroup(Tail(list), dt,
                    IF Head(list).dt = dt
                    THEN TallyEvent(Head(list), tot, revoked) ELSE tot,
                    revoked)

\* for dt in dts: ...
RECURSIVE TallyAll(_, _, _, _)
TallyAll(ds, list, tot, revoked) ==
    IF ds = <<>> THEN tot
    ELSE TallyAll(Tail(ds), list, TallyGroup(list, Head(ds), tot, revoked),
                  revoked)

\* max(tot_days_count.values()), for a dict that is not empty.
MaxValue(tot) ==
    CHOOSE v \in {tot[d] : d \in DOMAIN tot} :
        \A d \in DOMAIN tot : tot[d] <= v

\* ------------------------------------------------------------------- Init
\* The state of at_stop_corona_dump.py before the loop, for the files on disk
\* and the keys in them.
WalkStart(files, keys) ==
    /\ universe = keys
    /\ archives = SortedPaths(files)
    /\ idx = 1
    /\ pc = "loop"
    /\ all_keys = {}
    /\ revoked_keys = {}
    /\ prev_keys = None
    /\ prev_dt = None
    /\ events = <<>>
    /\ added_when = <<>>
    /\ dts = <<>>
    /\ now_keys = None
    /\ sorted_events = <<>>
    /\ tot_days_count = <<>>
    /\ headline = None
    /\ loaded = {}
    /\ paired = {}

\* ------------------------------------------------------- download_data.py
Workers == 1..NUM_WORKERS

\* at_save: the directory is the date of the batch interval, the file name
\* the url's timestamp (seconds) cut to the minute by '%Y-%m-%d_%H-%M'.
AtSavePath(days, interval, timestamp) ==
    [dir |-> <<days, interval \div 144>>, name |-> timestamp \div 60]

\* The timestamps in the batch_file_paths of the index: the first two fall
\* into one minute.
UrlTimestamps == {0, 30, 60}

\* The jobs of at_save(14, batch) for a batch of interval 0: no check_path.
AtJobs ==
    {[path |-> AtSavePath(14, 0, ts), check |-> None] : ts \in UrlTimestamps}

\* A date folder of the corona-warn data (directory <<1, 0>>) with the file
\* of an earlier run and the file of this minute.
LastFile == [dir |-> <<1, 0>>, name |-> 0]
NowFile == [dir |-> <<1, 0>>, name |-> 1]

\* The job of a date folder: check_path is the last file of the folder, None
\* for an empty folder.
DeJobs == {[path |-> NowFile, check |-> c] :
              c \in {None, Some(LastFile), Some(NowFile)}}

DPaths == {j.path : j \in AtJobs} \cup {LastFile, NowFile}

\* What a GET may return.
Contents == {1, 2}

\* The files a date folder holds when its job was queued with check_path c:
\* check_path is sorted(glob('*.zip'))[-1].
FolderFits(disk, c) ==
    CASE c = None -> disk[LastFile] = None /\ disk[NowFile] = None
      [] c = Some(LastFile) -> disk[LastFile] # None /\ disk[NowFile] = None
      [] c = Some(NowFile) -> disk[NowFile] # None

\* The job lists: at most one job for the date folder, then the jobs of
\* at_save.
JobLists ==
    UNION {[1..n -> DeJobs \cup AtJobs] : n \in 0..MaxJobs}

\* The state when the workers have been started and the main thread is at
\* to_save.join().
DownloadStart(list, disk) ==
    /\ jobs = list
    /\ fs = disk
    /\ to_save = [queue |-> [i \in 1..Len(list) |-> i],
                  unfinished |-> Len(list)]
    /\ workers = [w \in Workers |-> [pc |-> "get", item |-> 0, resp |-> 0]]
    /\ main = [pc |-> "join", put |-> 0]
    /\ dlog = [writes |-> [p \in DPaths |-> 0], overwrote |-> FALSE,
               started |-> [i \in 1..Len(list) |-> 0],
               finished |-> [i \in 1..Len(list) |-> 0],
               raised |-> 0,
               sentinels |-> [w \in Workers |-> 0]]

\* No download in this run of the model.
DownloadIdle ==
    DownloadStart(<<>>, [p \in DPaths |-> None])

Start(files, keys) == WalkStart(files, keys) /\ DownloadIdle

InitDownload ==
    /\ WalkStart({}, {})
    /\ \E list \in JobLists :
       \E disk \in [DPaths -> {None, Some(1)}] :
          /\ \A i \in 1..Len(list) : list[i] \in DeJobs => i = 1
          /\ IF Len(list) > 0 /\ list[1] \in DeJobs
             THEN FolderFits(disk, list[1].check)
             ELSE disk[LastFile] = None /\ disk[NowFile] = None
          /\ DownloadStart(list, disk)

Init ==
    \E files \in SUBSET Paths :
        Cardinality(files) <= MaxArchives /\ Start(files, TEK)

InitLong ==
    \E files \in SUBSET LongPaths :
        Cardinality(files) <= MaxLongArchives /\ Start(files, {K1})

InitTie ==
    \E files \in SUBSET Paths :
        Cardinality(files) <= MaxTieArchives /\ Start(files, {K1, K4})

\* ---------------------------------------------------------------- actions
\* The first archive of the loop: "if prev_keys is None: ... continue".
FirstArchive ==
    /\ pc = "loop"
    /\ idx <= Len(archives)
    /\ prev_keys = None
    /\ \E keys \in SUBSET universe :
          /\ now_keys' = Some(keys)
          /\ prev_keys' = Some(keys)
          /\ loaded' = loaded \cup keys
    /\ prev_dt' = Some(Archive_dt(archives[idx]))
    /\ dts' = Append(dts, Archive_dt(archives[idx]))
    /\ idx' = idx + 1
    /\ UNCHANGED <<universe, archives, pc, all_keys, revoked_keys, events,
                   added_when, paired, sorted_events, tot_days_count,
                   headline, dl_vars>>

\* Every later archive: the body of the loop from the intersection on.
Transition ==
    /\ pc = "loop"
    /\ idx <= Len(archives)
    /\ prev_keys # None
    /\ \E keys \in SUBSET universe :
       \E inter \in InterLists(keys, prev_keys[1]) :
          LET dt == Archive_dt(archives[idx])
              a  == AddLoop(inter,
                            [all_keys |-> all_keys, added_when |-> added_when,
                             events |-> events],
                            prev_dt[1])
          IN  \E order \in Orders(a.all_keys) :
                 LET d == DepartLoop(order, inter,
                                     [all_keys |-> a.all_keys,
                                      revoked_keys |-> revoked_keys,
                                      events |-> a.events, failed |-> FALSE],
                                     dt, a.added_when)
                 IN  /\ all_keys' = d.all_keys
                     /\ revoked_keys' = d.revoked_keys
                     /\ events' = d.events
                     /\ added_when' = a.added_when
                     /\ pc' = IF d.failed THEN "KeyError" ELSE "loop"
                     /\ prev_keys' = IF d.failed THEN prev_keys ELSE Some(keys)
                     /\ prev_dt' = IF d.failed THEN prev_dt ELSE Some(dt)
                     /\ idx' = IF d.failed THEN idx ELSE idx + 1
                     /\ dts' = Append(dts, dt)
                     /\ now_keys' = Some(keys)
                     /\ loaded' = loaded \cup keys
                     /\ paired' = paired \cup (keys \cap prev_keys[1])
    /\ UNCHANGED <<universe, archives, sorted_events, tot_days_count,
                   headline, dl_vars>>

\* After the loop: the add-only pass against last_archive.  With no archive
\* at all prev_keys is still None and set(prev_keys) raises TypeError.
TerminalPass ==
    /\ pc = "loop"
    /\ idx > Len(archives)
    /\ IF prev_keys = None
       THEN /\ pc' = "TypeError"
            /\ \E keys \in SUBSET universe :
                  /\ now_keys' = Some(keys)
                  /\ loaded' = loaded \cup keys
            /\ UNCHANGED <<all_keys, events, added_when, paired>>
       ELSE \E keys \in SUBSET universe :
            \E inter \in InterLists(keys, prev_keys[1]) :
               LET a == TerminalLoop(inter,
                                     [all_keys |-> all_keys,
                                      added_when |-> added_when,
                                      events |-> events],
                                     prev_dt[1])
               IN  /\ all_keys' = a.all_keys
                   /\ events' = a.events
                   /\ added_when' = a.added_when
                   /\ pc' = "extracted"
                   /\ now_keys' = Some(keys)
                   /\ loaded' = loaded \cup keys
                   /\ paired' = paired \cup (keys \cap prev_keys[1])
    /\ UNCHANGED <<universe, archives, idx, revoked_keys, prev_keys, prev_dt,
                   dts, sorted_events, tot_days_count, headline, dl_vars>>

\* The rest of the script: the sort of the events, the tally over dts and the
\* last line, where max() of an empty dict raises ValueError.
Report ==
    /\ pc = "extracted"
    /\ sorted_events' = SortEvents(events)
    /\ tot_days_count' = TallyAll(dts, sorted_events', <<>>, revoked_keys)
    /\ IF DOMAIN tot_days_count' = {}
       THEN pc' = "ValueError" /\ headline' = None
       ELSE pc' = "reported" /\ headline' = Some(MaxValue(tot_days_count'))
    /\ UNCHANGED <<universe, archives, idx, all_keys, revoked_keys, prev_keys,
                   prev_dt, events, added_when, dts, now_keys, loaded, paired,
                   dl_vars>>

Next == FirstArchive \/ Transition \/ TerminalPass \/ Report

\* ------------------------------------------------- the worker threads
SetWorker(w, at, item, resp) ==
    [workers EXCEPT ![w] = [pc |-> at, item |-> item, resp |-> resp]]

\* item = to_save.get(); "if item is None: break"
Get(w) ==
    /\ workers[w].pc = "get"
    /\ to_save.queue # <<>>
    /\ LET item == Head(to_save.queue)
       IN  /\ to_save' = [to_save EXCEPT !.queue = Tail(@)]
           /\ IF item = 0
              THEN /\ workers' = SetWorker(w, "exited", 0, 0)
                   /\ dlog' = [dlog EXCEPT !.sentinels[w] = @ + 1]
              ELSE /\ workers' = SetWorker(w, "fetch", item, 0)
                   /\ dlog' = [dlog EXCEPT !.started[item] = @ + 1]
    /\ UNCHANGED <<fs, jobs, main, walk_vars>>

\* Where the worker goes on after "except Exception as exc: print(exc)".
AfterExceptionNoTaskDone == "get"

AfterException == "task_done"

\* resp = sess.get(url); resp.raise_for_status(): content, or an exception
\* that the worker catches.
Fetch(w) ==
    /\ workers[w].pc = "fetch"
    /\ \/ \E c \in Contents :
             /\ workers' = SetWorker(w, "check", workers[w].item, c)
             /\ dlog' = dlog
       \/ /\ workers' = SetWorker(w, AfterException, workers[w].item, 0)
          /\ dlog' = [dlog EXCEPT !.raised = @ + 1]
    /\ UNCHANGED <<fs, jobs, to_save, main, walk_vars>>

\* MatchesCheckPath comparing with the target instead of check_path.
MatchesCheckPathOnTarget(job, resp, disk) ==
    /\ job.check # None
    /\ disk[job.path] # None
    /\ disk[job.path] = Some(resp)

\* "check_path is not None and check_path.is_file()" and
\* "resp.content == check_path.read_bytes()"
MatchesCheckPath(job, resp, disk) ==
    /\ job.check # None
    /\ disk[job.check[1]] # None
    /\ disk[job.check[1]] = Some(resp)

\* The test on check_path: return when the content matches.
CheckCheckPath(w) ==
    /\ workers[w].pc = "check"
    /\ workers' = SetWorker(w,
                     IF MatchesCheckPath(jobs[workers[w].item],
                                         workers[w].resp, fs)
                     THEN "task_done" ELSE "exists",
                     workers[w].item, workers[w].resp)
    /\ UNCHANGED <<fs, jobs, to_save, main, dlog, walk_vars>>

\* "if path.is_file(): ... return"
CheckExists(w) ==
    /\ workers[w].pc = "exists"
    /\ workers' = SetWorker(w,
                     IF fs[jobs[workers[w].item].path] # None
                     THEN "task_done" ELSE "write",
                     workers[w].item, workers[w].resp)
    /\ UNCHANGED <<fs, jobs, to_save, main, dlog, walk_vars>>

\* path.parent.mkdir(...); path.write_bytes(resp.content)
Write(w) ==
    /\ workers[w].pc = "write"
    /\ LET path == jobs[workers[w].item].path
       IN  /\ fs' = [fs EXCEPT ![path] = Some(workers[w].resp)]
           /\ dlog' = [dlog EXCEPT !.writes[path] = @ + 1,
                                   !.overwrote = @ \/ fs[path] # None]
    /\ workers' = SetWorker(w, "task_done", workers[w].item, workers[w].resp)
    /\ UNCHANGED <<jobs, to_save, main, walk_vars>>

\* to_save.task_done()
TaskDone(w) ==
    /\ workers[w].pc = "task_done"
    /\ to_save' = [to_save EXCEPT !.unfinished = @ - 1]
    /\ dlog' = [dlog EXCEPT !.finished[workers[w].item] = @ + 1]
    /\ workers' = SetWorker(w, "get", 0, 0)
    /\ UNCHANGED <<fs, jobs, main, walk_vars>>

WorkerStep(w) ==
    \/ Get(w) \/ Fetch(w) \/ CheckCheckPath(w) \/ CheckExists(w)
    \/ Write(w) \/ TaskDone(w)

\* ------------------------------------------------------ the main thread
\* to_save.join() returns when no task is unfinished.
Join ==
    /\ main.pc = "join"
    /\ to_save.unfinished = 0
    /\ main' = [main EXCEPT !.pc = "put"]
    /\ UNCHANGED <<fs, jobs, to_save, workers, dlog, walk_vars>>

\* for i in range(NUM_WORKERS): to_save.put(None)
PutNone ==
    /\ main.pc = "put"
    /\ to_save' = [queue |-> Append(to_save.queue, 0),
                   unfinished |-> to_save.unfinished + 1]
    /\ main' = [pc |-> IF main.put + 1 = NUM_WORKERS THEN "threads" ELSE "put",
                put |-> main.put + 1]
    /\ UNCHANGED <<fs, jobs, workers, dlog, walk_vars>>

\* for t in threads: t.join(); print("Done")
JoinThreads ==
    /\ main.pc = "threads"
    /\ \A w \in Workers : workers[w].pc = "exited"
    /\ main' = [main EXCEPT !.pc = "Done"]
    /\ UNCHANGED <<fs, jobs, to_save, workers, dlog, walk_vars>>

MainStep == Join \/ PutNone \/ JoinThreads

DownloadNext ==
    \/ \E w \in Workers : Get(w)
    \/ \E w \in Workers : Fetch(w)
    \/ \E w \in Workers : CheckCheckPath(w)
    \/ \E w \in Workers : CheckExists(w)
    \/ \E w \in Workers : Write(w)
    \/ \E w \in Workers : TaskDone(w)
    \/ Join
    \/ PutNone
    \/ JoinThreads

\* The save queue of download_data.py, in any interleaving of the threads.
SpecDownload == InitDownload /\ [][DownloadNext]_vars

\* The same with every thread that can take a step taking one eventually.
SpecDownloadFair ==
    /\ InitDownload
    /\ [][DownloadNext]_vars
    /\ \A w \in Workers : WF_vars(WorkerStep(w))
    /\ WF_vars(MainStep)

Spec == Init /\ [][Next]_vars

\* The same walk over up to MaxLongArchives daily exports of the one key K1.
SpecLong == InitLong /\ [][Next]_vars

\* The same walk over up to MaxTieArchives exports of K1 and K4.
SpecTie == InitTie /\ [][Next]_vars

\* ------------------------------------------------- vocabulary of the claims
IsAdded(e) == e.type = "AddedEvent"
IsDeparture(e) == e.type \in {"RevokedEvent", "AutoRemovedEvent"}

\* The events a step appended.
NewIdx == (Len(events) + 1)..Len(events')

\* A step that ran the loop body on a later archive (a regular transition).
RegularStep == pc = "loop" /\ prev_keys # None /\ idx' = idx + 1
\* The step of the terminal pass that found a previous export.
TerminalStep == pc = "loop" /\ pc' = "extracted"
\* The intersection such a step worked on: the export it loaded and the
\* previous one.
StepInter == now_keys'[1] \cap prev_keys[1]

\* The intersection the last step worked on, seen from the state after it.
StepInterNow == now_keys[1] \cap prev_keys[1]

EightDays == 8 * 24 * 60

\* The timestamps of a sequence strictly ascend.
RECURSIVE Ascending(_)
Ascending(s) == Len(s) < 2 \/ (s[1] < s[2] /\ Ascending(Tail(s)))
StartOf(key) == key.interval * 10

\* ---------------------------------------------------------------------- C1
\* C1: in every regular transition, each key that is live and absent from the
\* transition's intersection gets exactly one event, stamped with the later
\* snapshot's timestamp: Revoked when that timestamp minus the key's start
\* time is at most 8 days (the key then is in revoked_keys), AutoRemoved
\* otherwise (revoked_keys is not given the key); either way it leaves live.
C1_DepartureClassification ==
    [][RegularStep =>
        \A k \in all_keys \ StepInter :
            LET mine == {i \in NewIdx : events'[i].key = k}
                dt   == prev_dt'[1]
            IN  /\ Cardinality(mine) = 1
                /\ k \notin all_keys'
                /\ \A i \in mine :
                      /\ events'[i].dt = dt
                      /\ IF dt - StartOf(k) <= EightDays
                         THEN /\ events'[i].type = "RevokedEvent"
                              /\ k \in revoked_keys'
                         ELSE /\ events'[i].type = "AutoRemovedEvent"
                              /\ (k \in revoked_keys' <=> k \in revoked_keys)
    ]_vars

\* A walk that revoked a key aged exactly 8 days and auto-removed a key aged
\* 8 days and one minute (the next age an archive name can express).
C1_Witness ==
    /\ \E i \in 1..Len(events) :
          /\ events[i].type = "RevokedEvent"
          /\ events[i].dt - StartOf(events[i].key) = EightDays
    /\ \E j \in 1..Len(events) :
          /\ events[j].type = "AutoRemovedEvent"
          /\ events[j].dt - StartOf(events[j].key) = EightDays + 1

\* ---------------------------------------------------------------------- C2
\* C2: in every transition (the terminal pass included) Added events are
\* appended for exactly the keys of the intersection that are not live at the
\* start of the step, one each, stamped with the earlier timestamp;
\* added_when holds that timestamp for the key and the key is live afterwards.
C2_AddDetection ==
    [][(RegularStep \/ TerminalStep) =>
        LET fresh == StepInter \ all_keys
            adds  == {i \in NewIdx : IsAdded(events'[i])}
        IN  /\ {events'[i].key : i \in adds} = fresh
            /\ Cardinality(adds) = Cardinality(fresh)
            /\ \A i \in adds : events'[i].dt = prev_dt[1]
            /\ \A k \in fresh :
                  /\ k \in DOMAIN added_when'
                  /\ added_when'[k] = prev_dt[1]
                  /\ k \in all_keys'
    ]_vars

\* A regular transition added one key while another stayed live, and the
\* terminal pass then added a further key.
C2_Witness ==
    /\ pc = "extracted"
    /\ Len(dts) >= 3
    /\ \A m \in 1..(Len(dts) - 1) : dts[m] < dts[Len(dts)]
    /\ \E i, j \in 1..Len(events) :
          /\ IsAdded(events[i]) /\ IsAdded(events[j])
          /\ events[i].dt < events[j].dt
          /\ events[j].dt = prev_dt[1]
          /\ events[j].key \in StepInterNow

\* ---------------------------------------------------------------------- C3
\* C3: a key that never was in two adjacent loaded exports (the last regular
\* export and the supplementary one count as adjacent) is never live and has
\* no event of any kind.
C3_NoiseRejection ==
    /\ all_keys \subseteq paired
    /\ \A i \in 1..Len(events) : events[i].key \in paired

\* A finished walk that emitted events while some key was loaded, but never
\* in two adjacent exports.
C3_Witness ==
    /\ pc = "extracted"
    /\ events # <<>>
    /\ loaded \ paired # {}

\* ---------------------------------------------------------------------- C4
\* C4: (already on walks whose archive timestamps strictly ascend) once a key
\* has left live by a Revoked or an AutoRemoved event it is never live again,
\* so no key is at once live and among the keys that left.
C4_NeverReenters ==
    Ascending(dts) =>
        \A k \in all_keys :
            \A i \in 1..Len(events) :
                ~(events[i].key = k /\ IsDeparture(events[i]))

\* ---------------------------------------------------------------------- C5
\* C5: in the order of emission, between two Added events of one key there is
\* a Revoked or AutoRemoved event of that key.
C5_OneLiveInterval ==
    \A i, j \in 1..Len(events) :
        (i < j /\ IsAdded(events[i]) /\ IsAdded(events[j])
               /\ events[i].key = events[j].key)
        => \E m \in (i + 1)..(j - 1) :
              IsDeparture(events[m]) /\ events[m].key = events[i].key

\* A key with two Added events, and a key that stayed live over two
\* transitions with a single one.
C5_Witness ==
    /\ \E i, j \in 1..Len(events) :
          /\ i < j /\ IsAdded(events[i]) /\ IsAdded(events[j])
          /\ events[i].key = events[j].key
    /\ \E k \in all_keys :
          /\ Cardinality({i \in 1..Len(events) : events[i].key = k}) = 1
          /\ added_when[k] = dts[1]
          /\ Len(dts) >= 3

\* ---------------------------------------------------------------------- C6
\* C6: (already on walks whose archive timestamps strictly ascend) an Added
\* event has changed = TRUE exactly when a key with the same data and another
\* interval, level or period was added earlier in the run, still live or not.
C6_ChangedIffAddedEarlier ==
    Ascending(dts) =>
        \A j \in 1..Len(events) :
            IsAdded(events[j]) =>
                (events[j].changed <=>
                    \E i \in 1..(j - 1) :
                        /\ IsAdded(events[i])
                        /\ events[i].key.data = events[j].key.data
                        /\ events[i].key # events[j].key)

\* ---------------------------------------------------------------------- C7
\* C7: in a regular transition the Added events come before the departures,
\* no key gets both, and every key added is live when the transition ends.
C7_AddsBeforeDepartures ==
    [][RegularStep =>
        /\ \A i, j \in NewIdx :
              (IsAdded(events'[i]) /\ IsDeparture(events'[j]))
              => (i < j /\ events'[i].key # events'[j].key)
        /\ \A i \in NewIdx : IsAdded(events'[i]) => events'[i].key \in all_keys'
    ]_vars

\* The second transition of a walk (its three timestamps differ, so its
\* events are told apart by their stamps) both added a key and removed one.
C7_Witness ==
    /\ Len(dts) = 3
    /\ dts[1] # dts[2] /\ dts[2] # dts[3] /\ dts[1] # dts[3]
    /\ \E i, j \in 1..Len(events) :
          /\ IsAdded(events[i]) /\ events[i].dt = dts[2]
          /\ IsDeparture(events[j]) /\ events[j].dt = dts[3]

\* ---------------------------------------------------------------------- C8
FirstAdded(k) ==
    events[CHOOSE i \in 1..Len(events) :
              /\ IsAdded(events[i]) /\ events[i].key = k
              /\ \A m \in 1..(i - 1) : ~(IsAdded(events[m]) /\ events[m].key = k)]

\* C8: (on walks whose archive timestamps strictly ascend) the added_when
\* lookup of a departure never fails, and every Revoked or AutoRemoved event
\* carries the timestamp at which its key was first added, which is earlier
\* than the event's own.
C8_AddedAtIsFirstAdd ==
    Ascending(dts) =>
        /\ pc # "KeyError"
        /\ \A j \in 1..Len(events) :
              IsDeparture(events[j]) =>
                  /\ \E i \in 1..(j - 1) :
                        IsAdded(events[i]) /\ events[i].key = events[j].key
                  /\ events[j].added_dt = FirstAdded(events[j].key).dt
                  /\ events[j].added_dt < events[j].dt

\* ---------------------------------------------------------------------- C9
\* C9: the terminal pass appends only Added events, all stamped with the
\* last regular snapshot's timestamp, takes no key out of live and leaves
\* revoked_keys as it is.
C9_TerminalAddOnly ==
    [][TerminalStep =>
        /\ \A i \in NewIdx :
              IsAdded(events'[i]) /\ events'[i].dt = dts[Len(dts)]
        /\ all_keys \subseteq all_keys'
        /\ revoked_keys' = revoked_keys
        /\ dts' = dts
    ]_vars

\* After the terminal pass a key is live that is not in the last
\* intersection, and the pass added a key.
C9_Witness ==
    /\ pc = "extracted"
    /\ all_keys \ StepInterNow # {}
    /\ Len(dts) >= 2
    /\ \A m \in 1..(Len(dts) - 1) : dts[m] < dts[Len(dts)]
    /\ \E i \in 1..Len(events) :
          IsAdded(events[i]) /\ events[i].dt = dts[Len(dts)]

\* --------------------------------------------------------------------- C10
\* C10: with no regular snapshot, or with a single one, the extractor does
\* not fail and produces no event.
C10_EmptyInput ==
    Len(archives) <= 1 => (pc \notin {"TypeError", "KeyError"} /\ events = <<>>)

\* ------------------------------------------------ vocabulary of the report
\* The script ran to its last line or stopped there.
Finished == pc \in {"reported", "ValueError"}

\* The tally of a day bucket (a bucket without an entry holds 0).
Tally(d) == IF d \in DOMAIN tot_days_count THEN tot_days_count[d] ELSE 0

Intervals == {k.interval : k \in universe}

\* The Added events of the run whose key starts at d, has level 5 and was
\* never classified Revoked.
CountedAdds(d) ==
    {i \in 1..Len(events) :
        /\ IsAdded(events[i])
        /\ events[i].key.interval = d
        /\ events[i].key.level = 5
        /\ \A j \in 1..Len(events) :
              ~(events[j].type = "RevokedEvent" /\ events[j].key = events[i].key)}

Distinct(s) == \A i, j \in 1..Len(s) : i # j => s[i] # s[j]

\* --------------------------------------------------------------------- C11
\* C11: after the walk the tally of every start interval d is the number of
\* Added events whose key has interval d and level 5 and was never
\* classified Revoked.
C11_DayBucketTally ==
    Finished => \A d \in Intervals : Tally(d) = Cardinality(CountedAdds(d))

\* --------------------------------------------------------------------- C12
\* C12: with pairwise distinct snapshot timestamps, every level-5 key that is
\* never revoked counts exactly once in its day bucket: the tally of d is the
\* number of such keys that were added.
C12_CountedOncePerKey ==
    (Finished /\ Distinct(dts)) =>
        \A d \in Intervals :
            Tally(d) = Cardinality({events[i].key : i \in CountedAdds(d)})

\* --------------------------------------------------------------------- C13
\* C13: the script does not fail on its last line; the value it reports is
\* the largest tally of a day bucket, 0 when no Added event was counted.
C13_Headline ==
    Finished =>
        /\ pc = "reported"
        /\ \A d \in Intervals : Tally(d) <= headline[1]
        /\ \/ \E d \in Intervals : Tally(d) = headline[1]
           \/ headline[1] = 0

\* --------------------------------------------------------------------- C14
\* The place of a variant name in the textual order of the names.
VariantRank(e) ==
    CASE e.type = "AddedEvent" -> 0
      [] e.type = "AutoRemovedEvent" -> 1
      [] e.type = "RevokedEvent" -> 2

\* e comes before f by (timestamp, variant name, level, start time).
Before(e, f) ==
    \/ e.dt < f.dt
    \/ e.dt = f.dt /\ VariantRank(e) < VariantRank(f)
    \/ e.dt = f.dt /\ VariantRank(e) = VariantRank(f)
                   /\ e.key.level < f.key.level
    \/ e.dt = f.dt /\ VariantRank(e) = VariantRank(f)
                   /\ e.key.level = f.key.level
                   /\ StartOf(e.key) < StartOf(f.key)

\* C14: the final list is ordered by (timestamp, variant name, level, start
\* time), an Added event precedes an AutoRemoved event of the same timestamp,
\* and the order is the same on every run: any two events of the list are
\* put in order by that key, none is left to the order of emission (which is
\* the iteration order of a set and differs between runs).
C14_SortedAndDeterministic ==
    Finished =>
        \A i, j \in 1..Len(sorted_events) :
            i < j => Before(sorted_events[i], sorted_events[j])

\* --------------------------------------------------------------------- C15
\* C15: the snapshots reach the extractor in strictly ascending order of
\* their capture times, whatever archive files are on disk: the timestamps
\* the walk has appended to dts strictly ascend.
C15_StrictlyAscending == Ascending(dts)

\* --------------------------------------------------------------------- C19
\* C19: after every regular transition from snapshot i to snapshot i+1 live
\* is exactly the intersection of the two key sets; hence the keys that
\* depart in a transition, all at snapshot i+1's timestamp, are exactly the
\* keys of live before it (by the first part the intersection of snapshots
\* i-1 and i, and empty before the first transition) that snapshot i+1 lacks.
C19_LiveIsLastIntersection ==
    [][RegularStep =>
        /\ all_keys' = prev_keys[1] \cap prev_keys'[1]
        /\ (Len(dts) = 1 => all_keys = {})
        /\ {events'[i].key : i \in {n \in NewIdx : IsDeparture(events'[n])}}
              = {k \in all_keys : k \notin prev_keys'[1]}
        /\ \A i \in NewIdx :
              IsDeparture(events'[i]) => events'[i].dt = prev_dt'[1]
    ]_vars

\* After the second transition of a walk one key has departed and another
\* one is live.
C19_Witness ==
    /\ pc = "loop"
    /\ Len(dts) = 3
    /\ all_keys # {}
    /\ \E i \in 1..Len(events) :
          IsDeparture(events[i]) /\ events[i].dt = dts[3]

\* --------------------------------------------------------------------- C20
\* The events of the key of sorted_events[i] that come before it.
EarlierOfKey(i) ==
    {m \in 1..(i - 1) : sorted_events[m].key = sorted_events[i].key}

\* C20: with strictly ascending snapshot timestamps the events of a key
\* alternate in the final list, Added first: its first event is an Added
\* event, and each further one is of the other kind than the one before it
\* (a departure after an Added event, an Added event after a departure) and
\* has a strictly later timestamp.
C20_AlternationInSortedList ==
    (Finished /\ Ascending(dts)) =>
        \A i \in 1..Len(sorted_events) :
            IF EarlierOfKey(i) = {}
            THEN IsAdded(sorted_events[i])
            ELSE LET m == CHOOSE x \in EarlierOfKey(i) :
                             \A y \in EarlierOfKey(i) : y <= x
                 IN  /\ IsAdded(sorted_events[i]) # IsAdded(sorted_events[m])
                     /\ sorted_events[m].dt < sorted_events[i].dt

\* A finished walk with ascending timestamps in which a key was added,
\* departed and was added again, while another event shares a timestamp
\* with one of these.
C20_Witness ==
    /\ Finished /\ Ascending(dts)
    /\ \E i, j, n \in 1..Len(sorted_events) :
          /\ i < j /\ j < n
          /\ sorted_events[i].key = sorted_events[j].key
          /\ sorted_events[j].key = sorted_events[n].key
          /\ IsAdded(sorted_events[i]) /\ IsDeparture(sorted_events[j])
          /\ IsAdded(sorted_events[n])
          /\ \E o \in 1..Len(sorted_events) :
                /\ sorted_events[o].key # sorted_events[j].key
                /\ sorted_events[o].dt = sorted_events[j].dt


\* --------------------------------------------------- the save queue claims
\* The job a worker is running.
JobOf(w) == jobs[workers[w].item]

C17_NoOverwrite ==
    /\ ~dlog.overwrote
    /\ \A p \in DPaths : dlog.writes[p] <= 1

\* Every job has been taken from the queue once and marked done once.
AllJobsOnce ==
    \A i \in 1..Len(jobs) : dlog.started[i] = 1 /\ dlog.finished[i] = 1

\* C18: no job is taken twice, a worker exits only on a None and only after
\* to_save.join() has returned, the main thread reaches Done, and at Done
\* every job has been run and marked done once, the queue is empty and
\* every worker has taken one None and exited.
C18_PoolTerminates ==
    /\ [](\A i \in 1..Len(jobs) :
             dlog.started[i] <= 1 /\ dlog.finished[i] <= dlog.started[i])
    /\ [](\A w \in Workers :
             /\ workers[w].pc = "exited" <=> dlog.sentinels[w] = 1
             /\ dlog.sentinels[w] <= 1
             /\ dlog.sentinels[w] = 1 => main.pc # "join" /\ AllJobsOnce)
    /\ [](main.pc = "Done" =>
             /\ AllJobsOnce
             /\ to_save.queue = <<>>
             /\ \A w \in Workers : workers[w].pc = "exited")
    /\ <>(main.pc = "Done")

\* The main thread is at Done after a run of MaxJobs jobs of which one
\* raised an exception.
C18_Witness ==
    /\ main.pc = "Done"
    /\ Len(jobs) = MaxJobs
    /\ dlog.raised > 0

====
